---- MODULE Spec2Model ----
(***************************************************************************)
(* r9ktg: a Telegram bot that deletes repeated messages (ROBOT9000).       *)
(* The model follows src/src/main.rs: the sled store and its three         *)
(* operations, the per-message handler process_message with its suspension *)
(* points at every transport call, the /allow and /forbid reply commands,  *)
(* the /import pipeline, and a restart of the process on the same store.   *)
(*                                                                         *)
(* Texts, captions and store keys are byte sequences.  The 128-bit xxh3    *)
(* digest is taken to be collision-free: a digest is modelled by the byte  *)
(* stream that was fed to the hasher.  An uploaded archive is modelled by  *)
(* its JSON document tree, and serde's typed deserialisation by ParseImport*)
(* walking that tree.  Handlers of different messages run as concurrent    *)
(* tasks; a task's step is the code it runs between two suspension points, *)
(* cut so that a step holds at most one store operation (sled operations   *)
(* are atomic, everything else a task touches is its own).                 *)
(***************************************************************************)
EXTENDS Integers, Sequences, FiniteSets, TLC

VARIABLES db, tasks, config, clock

vars == <<db, tasks, config, clock>>

---------------------------------------------------------------------------
(* Byte strings *)

Str_a == <<97>>
Str_b == <<98>>
Str_ab == <<97, 98>>
Str_allow == <<47, 97, 108, 108, 111, 119>>
Str_forbid == <<47, 102, 111, 114, 98, 105, 100>>
Str_import == <<47, 105, 109, 112, 111, 114, 116>>
Str_message == <<109, 101, 115, 115, 97, 103, 101>>
Str_service == <<115, 101, 114, 118, 105, 99, 101>>

IsWhitespace(b) == b \in {9, 10, 11, 12, 13, 32}

RECURSIVE TrimStart(_)
TrimStart(s) ==
    IF Len(s) > 0 /\ IsWhitespace(Head(s)) THEN TrimStart(Tail(s)) ELSE s

RECURSIVE TrimEnd(_)
TrimEnd(s) ==
    IF Len(s) > 0 /\ IsWhitespace(s[Len(s)])
    THEN TrimEnd(SubSeq(s, 1, Len(s) - 1))
    ELSE s

\* str::trim
Trim(s) == TrimEnd(TrimStart(s))

\* Option<T>: None is the empty sequence, Some(v) the one-element sequence.
None == <<>>
Some(v) == <<v>>

---------------------------------------------------------------------------
(* Fingerprint: Robot9000::hash_message *)

\* i64::to_le_bytes: eight bytes, least significant first, two's complement.
\* The model's integers are below 2^31 in magnitude, so the four high bytes
\* of a number n >= 0 are zero; a negative n is the complement of -n - 1.
to_le_bytes(n) ==
    LET u == IF n >= 0 THEN n ELSE -n - 1
        digits == <<u % 256, (u \div 256) % 256, (u \div 65536) % 256,
                    u \div 16777216, 0, 0, 0, 0>>
    IN  IF n >= 0 THEN digits ELSE [i \in 1..8 |-> 255 - digits[i]]

\* Xxh3 streaming hasher.  The state is the stream fed since the last reset;
\* the digest of a stream is the stream itself (no collisions).
XxhReset(h) == <<>>
XxhUpdate(h, bytes) == h \o bytes
XxhDigest128(h) == h

\* Mutant: the chat id is not fed to the hasher.
hash_message_ignoring_chat(chat_id, text) ==
    XxhDigest128(XxhUpdate(XxhReset(<<>>), text))

hash_message(chat_id, text) ==
    XxhDigest128(XxhUpdate(XxhUpdate(XxhReset(<<>>), to_le_bytes(chat_id)), text))

---------------------------------------------------------------------------
(* The sled tree: a function from the keys present to their values. *)

SledGet(d, k) == IF k \in DOMAIN d THEN Some(d[k]) ELSE None

SledInsert(d, k, v) == [x \in DOMAIN d \cup {k} |-> IF x = k THEN v ELSE d[x]]

SledRemove(d, k) == [x \in DOMAIN d \ {k} |-> d[x]]

\* Mutant: the write happens whatever the current value is.
compare_and_swap_blind(d, k, old, new) ==
    [swapped |-> TRUE,
     current |-> SledGet(d, k),
     db |-> IF new = None THEN SledRemove(d, k) ELSE SledInsert(d, k, new[1])]

\* sled::Tree::compare_and_swap: the write happens only when the current
\* value equals `old`; otherwise the current value is handed back.
compare_and_swap(d, k, old, new) ==
    IF SledGet(d, k) = old
    THEN [swapped |-> TRUE,
          current |-> SledGet(d, k),
          db |-> IF new = None THEN SledRemove(d, k) ELSE SledInsert(d, k, new[1])]
    ELSE [swapped |-> FALSE, current |-> SledGet(d, k), db |-> d]

\* Value encodings of the two markers.
SeenValue == <<>>
AllowedValue == <<1>>

\* The three states of an entry, as the bot reads them.
EntryState(d, k) ==
    IF k \notin DOMAIN d THEN "absent"
    ELSE IF Len(d[k]) = 0 THEN "seen" ELSE "allowed"

---------------------------------------------------------------------------
(* Robot9000's store operations.  Each takes the tree and gives back the    *)
(* tree after the operation and, for store_message, the returned bool.      *)
(* An I/O error of sled (the `?`) is the caller's branch: the tree is left  *)
(* as it was.                                                               *)

\* Mutant: the fall-through arm `_ => Ok(true)`.
store_message_new_is_dup(d, chat_id, text) ==
    LET hash == hash_message(chat_id, text)
        cas == compare_and_swap(d, hash, None, Some(SeenValue))
    IN  [db |-> cas.db,
         ret |-> IF ~cas.swapped /\ cas.current # None
                 THEN Len(cas.current[1]) = 0
                 ELSE TRUE]

\* Mutant: every entry that is present counts as a duplicate.
store_message_present_is_dup(d, chat_id, text) ==
    LET hash == hash_message(chat_id, text)
        cas == compare_and_swap(d, hash, None, Some(SeenValue))
    IN  [db |-> cas.db, ret |-> ~cas.swapped]

\* Mutant: the length test the wrong way round.
store_message_inverted_len(d, chat_id, text) ==
    LET hash == hash_message(chat_id, text)
        cas == compare_and_swap(d, hash, None, Some(SeenValue))
    IN  [db |-> cas.db,
         ret |-> IF ~cas.swapped /\ cas.current # None
                 THEN Len(cas.current[1]) # 0
                 ELSE FALSE]

\* Mutant: an unconditional insert in place of the compare-and-swap.
store_message_overwrite(d, chat_id, text) ==
    LET hash == hash_message(chat_id, text)
    IN  [db |-> SledInsert(d, hash, SeenValue),
         ret |-> SledGet(d, hash) = Some(SeenValue)]

store_message(d, chat_id, text) ==
    LET hash == hash_message(chat_id, text)
        cas == compare_and_swap(d, hash, None, Some(SeenValue))
    IN  [db |-> cas.db,
         ret |-> IF ~cas.swapped /\ cas.current # None
                 THEN Len(cas.current[1]) = 0
                 ELSE FALSE]

allow_message(d, chat_id, text) ==
    SledInsert(d, hash_message(chat_id, text), AllowedValue)

\* Mutant: the marker of allow_message.
forbid_message_as_allow(d, chat_id, text) ==
    SledInsert(d, hash_message(chat_id, text), AllowedValue)

\* Mutant: the entry is dropped instead of being set to Seen.
forbid_message_removing(d, chat_id, text) ==
    SledRemove(d, hash_message(chat_id, text))

forbid_message(d, chat_id, text) ==
    SledInsert(d, hash_message(chat_id, text), SeenValue)

---------------------------------------------------------------------------
(* Import archives: the JSON document tree and its typed deserialisation.  *)

JStr(s) == [j |-> "str", v |-> s]
JArr(a) == [j |-> "arr", v |-> a]
JObj(f) == [j |-> "obj", v |-> f]
\* Bytes that are no JSON document at all.
NotJson == [j |-> "invalid", v |-> <<>>]

JHas(o, name) == o.j = "obj" /\ name \in DOMAIN o.v

\* ImportTextChunk (untagged): a bare string, or an object with a string `text`.
ChunkOk(c) ==
    \/ c.j = "str"
    \/ JHas(c, "text") /\ c.v["text"].j = "str"

ParseChunk(c) ==
    IF c.j = "str"
    THEN [variant |-> "Simple", text |-> c.v]
    ELSE [variant |-> "Typed", text |-> c.v["text"].v]

\* ImportText (untagged): a string, or a sequence of chunks.
TextOk(x) ==
    \/ x.j = "str"
    \/ x.j = "arr" /\ \A n \in 1..Len(x.v) : ChunkOk(x.v[n])

ParseText(x) ==
    IF x.j = "str"
    THEN [variant |-> "Simple", chunks |-> <<>>, text |-> x.v]
    ELSE [variant |-> "Chunked",
          chunks |-> [n \in 1..Len(x.v) |-> ParseChunk(x.v[n])],
          text |-> <<>>]

\* ImportMessage: both `type` (a string) and `text` are required.
MessageOk(x) ==
    /\ JHas(x, "type") /\ x.v["type"].j = "str"
    /\ JHas(x, "text") /\ TextOk(x.v["text"])

\* Mutant: the records before the first malformed one are kept.
ParseImport_prefix(doc) ==
    LET ms == doc.v["messages"].v
        good == {n \in 1..Len(ms) : \A k \in 1..n : MessageOk(ms[k])}
    IN  [ok |-> TRUE,
         messages |-> [n \in 1..Cardinality(good) |->
                         [type |-> ms[n].v["type"].v,
                          text |-> ParseText(ms[n].v["text"])]]]

\* serde_json::from_slice::<Import>: Ok with the records, or Err.
ParseImport(doc) ==
    IF /\ JHas(doc, "messages")
       /\ doc.v["messages"].j = "arr"
       /\ \A n \in 1..Len(doc.v["messages"].v) : MessageOk(doc.v["messages"].v[n])
    THEN [ok |-> TRUE,
          messages |-> [n \in 1..Len(doc.v["messages"].v) |->
                          [type |-> doc.v["messages"].v[n].v["type"].v,
                           text |-> ParseText(doc.v["messages"].v[n].v["text"])]]]
    ELSE [ok |-> FALSE, messages |-> <<>>]

RECURSIVE ConcatChunks(_)
ConcatChunks(chunks) ==
    IF Len(chunks) = 0 THEN <<>>
    ELSE Head(chunks).text \o ConcatChunks(Tail(chunks))

\* ImportText::moo: the logical text of a record.
moo(t) == IF t.variant = "Simple" THEN t.text ELSE ConcatChunks(t.chunks)

---------------------------------------------------------------------------
(* Messages, as teloxide hands them to the handler.                        *)
(*   kind     "text" | "document" | "photo" (any other media) |            *)
(*            "service" (a MessageKind other than Common)                  *)
(*   from     None | Some(user id)                                         *)
(*   reply_to None | Some([kind, text]) : the replied-to message           *)
(*   caption  None | Some(bytes)                                           *)
(*   document [file_size, file] : the declared size and the file's content *)

NoDocument == [file_size |-> 0, file |-> NotJson]

Message(chat, from, kind, text, reply_to, caption, document) ==
    [chat |-> chat, from |-> from, kind |-> kind, text |-> text,
     reply_to |-> reply_to, caption |-> caption, document |-> document]

\* Config::max_import_size's default.
default_max_import_size == 50 * 1024 * 1024

---------------------------------------------------------------------------
(* A task: the handler of one message.                                     *)
(*   pc     "start", the transport call the task is suspended in, "import" *)
(*          (inside the per-record loop), or how it ended: "ok", "err",    *)
(*          "aborted" (the process stopped under it)                       *)
(*   calls  the transport calls the task has issued, in order              *)
(*   hash   the fingerprint of the task's last store operation             *)
(*   found  the state of the entry that operation met                      *)
(*   ret    the bool the last store_message returned                       *)
(*   import, i, count  the parsed records, the loop's position and its sum *)
(*   admin  what is_admin returned: None until it has, Some(bool) after    *)
(*   reply  the values formatted into the "too large" reply                *)
(* and, for stating properties of runs:                                    *)
(*   stores how many store operations the task has completed               *)
(*   fresh  how many of its store_message calls met an absent entry        *)
(*   was    the state of the entry of the message's text when the task    *)
(*          was dispatched                                                 *)
(*   ov     the last override applied to the message's text by then: its   *)
(*          verb ("none" when there was none), its stamp `at` and the      *)
(*          state `found` it met                                           *)
(*   at     the value of clock at the task's last store operation          *)
(*   prior  the task belongs to an earlier run of the process              *)
(* clock counts the store operations completed so far, by all tasks.       *)

NewTask(m, was, ov) ==
    [msg |-> m, pc |-> "start", err |-> "none", calls |-> <<>>, was |-> was, ov |-> ov,
     hash |-> <<>>, found |-> "none", ret |-> FALSE,
     import |-> <<>>, i |-> 0, count |-> 0, admin |-> None, reply |-> <<>>,
     stores |-> 0, fresh |-> 0, at |-> 0, prior |-> FALSE]

Finish(task) == [task EXCEPT !.pc = "ok"]

Fail(task, e) == [task EXCEPT !.pc = "err", !.err = e]

\* Issue a transport call and suspend in it.
Call(task, name, pc) == [task EXCEPT !.calls = Append(@, name), !.pc = pc]

Running(task) == task.pc \notin {"ok", "err", "aborted"}

\* What a task notes of a store operation on the fingerprint of `text`.
Noting(task, d, text) ==
    LET hash == hash_message(task.msg.chat.id, text)
    IN  [task EXCEPT !.hash = hash, !.found = EntryState(d, hash), !.stores = @ + 1]

\* store_message run by a task: the tree after it and the task holding the
\* result.
StoreBy(task, d, text) ==
    LET r == store_message(d, task.msg.chat.id, text)
        noted == Noting(task, d, text)
    IN  [db |-> r.db,
         task |-> [noted EXCEPT !.ret = r.ret,
                                !.fresh = @ + (IF noted.found = "absent" THEN 1 ELSE 0)]]

\* process_message, lines 296-309: record the text, delete the message when
\* store_message says so.
dedup(task, d, fail) ==
    IF fail THEN [db |-> d, task |-> Fail(task, "store")]
    ELSE LET r == StoreBy(task, d, task.msg.text)
         IN  [db |-> r.db,
              task |-> IF r.task.ret
                       THEN Call(r.task, "delete_message", "delete_message")
                       ELSE Finish(r.task)]

\* Mutant: the kind of the replied-to message is not looked at.
reply_command_any_target(m) ==
    IF Trim(m.text) = Str_allow THEN "allow"
    ELSE IF Trim(m.text) = Str_forbid THEN "forbid"
    ELSE "none"

\* reply_command's decision: which override, if any, a reply asks for.
reply_command(m) ==
    IF m.reply_to[1].kind # "text" THEN "none"
    ELSE IF Trim(m.text) = Str_allow THEN "allow"
    ELSE IF Trim(m.text) = Str_forbid THEN "forbid"
    ELSE "none"

\* The admin-only verb a message carries: "allow", "forbid", "import" or "none".
Verb(m) ==
    IF m.kind = "text"
    THEN IF m.reply_to # None THEN reply_command(m) ELSE "none"
    ELSE IF m.kind = "document" /\ m.caption # None /\ Trim(m.caption[1]) = Str_import
    THEN "import"
    ELSE "none"

\* Mutant: a document of exactly the maximum size is refused too.
import_document_strict(task, cfg) ==
    IF task.msg.document.file_size >= cfg.max_import_size
    THEN [Call(task, "send_message: too large", "send_message")
            EXCEPT !.reply = <<task.msg.document.file_size, cfg.max_import_size>>]
    ELSE Call(task, "get_file", "get_file")

\* import_document up to its first suspension: the size check.
import_document(task, cfg) ==
    IF task.msg.document.file_size > cfg.max_import_size
    THEN [Call(task, "send_message: too large", "send_message")
            EXCEPT !.reply = <<task.msg.document.file_size, cfg.max_import_size>>]
    ELSE Call(task, "get_file", "get_file")

\* The future ensure_admin runs for an admin.
privileged(task, d, cfg, fail) ==
    LET m == task.msg
    IN  IF Verb(m) = "import" THEN [db |-> d, task |-> import_document(task, cfg)]
        ELSE IF fail THEN [db |-> d, task |-> Fail(task, "store")]
        ELSE IF Verb(m) = "allow"
        THEN [db |-> allow_message(d, m.chat.id, m.reply_to[1].text),
              task |-> Finish(Noting(task, d, m.reply_to[1].text))]
        ELSE [db |-> forbid_message(d, m.chat.id, m.reply_to[1].text),
              task |-> Finish(Noting(task, d, m.reply_to[1].text))]

\* Mutant: is_admin looks the sender up in private chats too.
ensure_admin_always_asking(task, d, cfg, fail) ==
    [db |-> d, task |-> Call(task, "get_chat_member", "get_chat_member")]

\* ensure_admin and is_admin up to the first suspension: a private chat
\* needs no lookup.
ensure_admin(task, d, cfg, fail) ==
    IF task.msg.chat.private
    THEN privileged([task EXCEPT !.admin = Some(TRUE)], d, cfg, fail)
    ELSE [db |-> d, task |-> Call(task, "get_chat_member", "get_chat_member")]

\* Mutant: a reply that is no command is deduplicated whatever the
\* configuration says.
process_message_ignoring_toggle(task, d, cfg, fail) ==
    LET m == task.msg
    IN  IF m.kind = "service" \/ m.from = None
        THEN [db |-> d, task |-> Finish(task)]
        ELSE CASE m.kind = "text" ->
                    IF m.reply_to # None /\ reply_command(m) # "none"
                    THEN ensure_admin(task, d, cfg, fail)
                    ELSE dedup(task, d, fail)
               [] m.kind = "document" /\ m.caption # None ->
                    IF Trim(m.caption[1]) = Str_import
                    THEN ensure_admin(task, d, cfg, fail)
                    ELSE [db |-> d, task |-> Finish(task)]
               [] OTHER -> [db |-> d, task |-> Finish(task)]

\* Mutant: an exempt reply is not deleted, but its text is recorded.
process_message_recording_replies(task, d, cfg, fail) ==
    LET m == task.msg
    IN  IF m.kind = "service" \/ m.from = None
        THEN [db |-> d, task |-> Finish(task)]
        ELSE CASE m.kind = "text" ->
                    IF m.reply_to # None /\ reply_command(m) # "none"
                    THEN ensure_admin(task, d, cfg, fail)
                    ELSE IF m.reply_to # None /\ cfg.allow_duplicates_in_replies
                    THEN IF fail THEN [db |-> d, task |-> Fail(task, "store")]
                         ELSE LET r == StoreBy(task, d, m.text)
                              IN  [db |-> r.db, task |-> Finish(r.task)]
                    ELSE dedup(task, d, fail)
               [] m.kind = "document" /\ m.caption # None ->
                    IF Trim(m.caption[1]) = Str_import
                    THEN ensure_admin(task, d, cfg, fail)
                    ELSE [db |-> d, task |-> Finish(task)]
               [] OTHER -> [db |-> d, task |-> Finish(task)]

\* Mutant: the exemption of replies is checked before the command.
process_message_exempting_commands(task, d, cfg, fail) ==
    LET m == task.msg
    IN  IF m.kind = "service" \/ m.from = None
        THEN [db |-> d, task |-> Finish(task)]
        ELSE CASE m.kind = "text" ->
                    IF m.reply_to # None /\ cfg.allow_duplicates_in_replies
                    THEN [db |-> d, task |-> Finish(task)]
                    ELSE IF m.reply_to # None /\ reply_command(m) # "none"
                    THEN ensure_admin(task, d, cfg, fail)
                    ELSE dedup(task, d, fail)
               [] m.kind = "document" /\ m.caption # None ->
                    IF Trim(m.caption[1]) = Str_import
                    THEN ensure_admin(task, d, cfg, fail)
                    ELSE [db |-> d, task |-> Finish(task)]
               [] OTHER -> [db |-> d, task |-> Finish(task)]

\* process_message up to its first suspension or its end.
process_message(task, d, cfg, fail) ==
    LET m == task.msg
    IN  IF m.kind = "service" \/ m.from = None
        THEN [db |-> d, task |-> Finish(task)]
        ELSE CASE m.kind = "text" ->
                    IF m.reply_to # None /\ reply_command(m) # "none"
                    THEN ensure_admin(task, d, cfg, fail)
                    ELSE IF m.reply_to # None /\ cfg.allow_duplicates_in_replies
                    THEN [db |-> d, task |-> Finish(task)]
                    ELSE dedup(task, d, fail)
               [] m.kind = "document" /\ m.caption # None ->
                    IF Trim(m.caption[1]) = Str_import
                    THEN ensure_admin(task, d, cfg, fail)
                    ELSE [db |-> d, task |-> Finish(task)]
               [] OTHER -> [db |-> d, task |-> Finish(task)]

\* The archive parsed: the loop starts, or the reply is sent at once.
after_download(task) ==
    LET p == ParseImport(task.msg.document.file)
    IN  IF ~p.ok THEN Call(task, "send_message: parse error", "send_message")
        ELSE IF Len(p.messages) = 0
        THEN Call(task, "send_message: imported", "send_message")
        ELSE [task EXCEPT !.pc = "import", !.import = p.messages, !.i = 1]

\* Mutant: a record that store_message reports gets the live treatment.
import_record_deleting(task, d, fail) ==
    LET rec == task.import[task.i]
        s == StoreBy(task, d, moo(rec.text))
        r == IF rec.type = Str_message
             THEN [db |-> s.db,
                   task |-> IF s.task.ret
                            THEN [s.task EXCEPT !.calls = Append(@, "delete_message")]
                            ELSE [s.task EXCEPT !.count = @ + 1]]
             ELSE [db |-> d, task |-> task]
    IN  IF rec.type = Str_message /\ fail
        THEN [db |-> d, task |-> Fail(task, "store")]
        ELSE [db |-> r.db,
              task |-> IF task.i = Len(task.import)
                       THEN Call(r.task, "send_message: imported", "send_message")
                       ELSE [r.task EXCEPT !.i = @ + 1]]

\* Mutant: a failed store operation undoes what the import has recorded.
import_record_rollback(task, d, fail) ==
    IF fail
    THEN [db |-> SledRemove(d, task.hash), task |-> Fail(task, "store")]
    ELSE LET rec == task.import[task.i]
             s == StoreBy(task, d, moo(rec.text))
             r == IF rec.type = Str_message
                  THEN [db |-> s.db,
                        task |-> [s.task EXCEPT
                                    !.count = @ + (IF s.task.ret THEN 0 ELSE 1)]]
                  ELSE [db |-> d, task |-> task]
         IN  [db |-> r.db,
              task |-> IF task.i = Len(task.import)
                       THEN Call(r.task, "send_message: imported", "send_message")
                       ELSE [r.task EXCEPT !.i = @ + 1]]

\* One record of the import loop (lines 194-203) and, after the last one,
\* the reply with the count.
import_record(task, d, fail) ==
    LET rec == task.import[task.i]
        r == IF rec.type = Str_message
             THEN LET s == StoreBy(task, d, moo(rec.text))
                  IN  [db |-> s.db,
                       task |-> [s.task EXCEPT
                                   !.count = @ + (IF s.task.ret THEN 0 ELSE 1)]]
             ELSE [db |-> d, task |-> task]
    IN  IF rec.type = Str_message /\ fail
        THEN [db |-> d, task |-> Fail(task, "store")]
        ELSE [db |-> r.db,
              task |-> IF task.i = Len(task.import)
                       THEN Call(r.task, "send_message: imported", "send_message")
                       ELSE [r.task EXCEPT !.i = @ + 1]]

---------------------------------------------------------------------------
(* The environment: chats, the messages that arrive, the stores found at   *)
(* start-up.                                                               *)

GroupChat == [id |-> -1001, private |-> FALSE]
PrivateChat == [id |-> 42, private |-> TRUE]

Sender == Some(7)

Plain(chat, text) == Message(chat, Sender, "text", text, None, None, NoDocument)

Reply(chat, text, to) == Message(chat, Sender, "text", text, Some(to), None, NoDocument)

ToText(text) == [kind |-> "text", text |-> text]
ToDocument == [kind |-> "document", text |-> <<>>]

Upload(chat, caption, size, file) ==
    Message(chat, Sender, "document", <<>>, None, caption,
            [file_size |-> size, file |-> file])

Record(type, text) == JObj([f \in {"type", "text"} |-> IF f = "type" THEN JStr(type) ELSE text])

Export(records) == JObj([f \in {"messages"} |-> JArr(records)])

\* One text three times over: as a string, under another type tag, in chunks.
ArchiveRepeats ==
    Export(<<Record(Str_message, JStr(Str_ab)),
             Record(Str_service, JStr(Str_b)),
             Record(Str_message,
                    JArr(<<JStr(Str_a), JObj([f \in {"text"} |-> JStr(Str_b)])>>))>>)

\* A record of another type, then a message in chunks.
ArchiveShort ==
    Export(<<Record(Str_service, JStr(Str_b)),
             Record(Str_message,
                    JArr(<<JStr(Str_a), JObj([f \in {"text"} |-> JStr(Str_b)])>>))>>)

\* A record without `text`: the whole archive fails to parse.
ArchiveBroken ==
    Export(<<Record(Str_message, JStr(Str_ab)),
             JObj([f \in {"type"} |-> JStr(Str_message)])>>)

\* Keys a store opened at start-up may already hold.
InitKeys == {hash_message(GroupChat.id, Str_ab)}

InitStores ==
    UNION {[present -> {SeenValue, AllowedValue}] : present \in SUBSET InitKeys}

\* A message without a sender (a channel post).
Anonymous(chat, text) == Message(chat, None, "text", text, None, None, NoDocument)

\* A photo with a caption.
Photo(chat, caption) == Message(chat, Sender, "photo", <<>>, None, caption, NoDocument)

\* Config with its serde defaults.
DefaultConfig ==
    [allow_duplicates_in_replies |-> FALSE, max_import_size |-> default_max_import_size]

\* Config with R9KTG_ALLOW_DUPLICATES_IN_REPLIES set.
ExemptConfig == [DefaultConfig EXCEPT !.allow_duplicates_in_replies = TRUE]

---------------------------------------------------------------------------
(* The state machine *)

\* Mutant: the tasks work on one Robot9000 behind a lock.
robot_shared(t) == 0

\* The Robot9000 task t works on: process_message_free gets a clone of its
\* own, which shares the sled tree and the configuration.
robot(t) == t

\* The task is inside process_message, which borrows its Robot9000 mutably
\* from start to end, suspensions included.
Borrowing(task) == task.pc \notin {"start", "ok", "err", "aborted"}

\* Task t can use its Robot9000: no other task is borrowing it.
Free(t) ==
    \A u \in 1..Len(tasks) : (u # t /\ robot(u) = robot(t)) => ~Borrowing(tasks[u])

\* Task t moves to `task` and the tree to `d`; a completed store operation
\* advances the clock and is stamped with it.
Set(t, task, d) ==
    /\ Free(t)
    /\ IF task.stores > tasks[t].stores
       THEN /\ clock' = clock + 1
            /\ tasks' = [tasks EXCEPT ![t] = [task EXCEPT !.at = clock + 1]]
       ELSE /\ clock' = clock
            /\ tasks' = [tasks EXCEPT ![t] = task]
    /\ db' = d
    /\ UNCHANGED config

\* The last override applied so far to the text of message m in its chat.
LastOverride(m) ==
    LET applied == {u \in 1..Len(tasks) :
                      /\ tasks[u].stores > 0
                      /\ Verb(tasks[u].msg) \in {"allow", "forbid"}
                      /\ tasks[u].msg.chat.id = m.chat.id
                      /\ tasks[u].msg.reply_to[1].text = m.text}
    IN  IF applied = {} THEN [verb |-> "none", at |-> 0, found |-> "none"]
        ELSE LET u == CHOOSE u \in applied : \A v \in applied : tasks[v].at <= tasks[u].at
             IN  [verb |-> Verb(tasks[u].msg), at |-> tasks[u].at, found |-> tasks[u].found]

\* The dispatcher hands a message to a new task (process_message_free).
Dispatch(m, max) ==
    /\ Len(tasks) < max
    /\ tasks' = Append(tasks, NewTask(m, EntryState(db, hash_message(m.chat.id, m.text)),
                                      LastOverride(m)))
    /\ UNCHANGED <<db, config, clock>>

\* A new task runs process_message to its first suspension or to its end.
ProcessMessage(t) ==
    /\ tasks[t].pc = "start"
    /\ \E fail \in BOOLEAN :
          LET r == process_message(tasks[t], db, config, fail)
          IN  Set(t, r.task, r.db)

\* Mutant: the future runs for a sender who may not delete messages too.
GetChatMemberReturns_lenient(t) ==
    /\ tasks[t].pc = "get_chat_member"
    /\ \E answer \in {"err", "member", "admin"}, fail \in BOOLEAN :
          CASE answer = "err" -> Set(t, Fail(tasks[t], "transport"), db)
            [] OTHER ->
                 LET r == privileged([tasks[t] EXCEPT !.admin = Some(answer = "admin")],
                                     db, config, fail)
                 IN  Set(t, r.task, r.db)

\* get_chat_member answers: the lookup failed, the sender may not delete
\* messages ("Nice try"), or the sender is an admin and the future runs.
GetChatMemberReturns(t) ==
    /\ tasks[t].pc = "get_chat_member"
    /\ \E answer \in {"err", "member", "admin"}, fail \in BOOLEAN :
          CASE answer = "err" -> Set(t, Fail(tasks[t], "transport"), db)
            [] answer = "member" ->
                 Set(t, Call([tasks[t] EXCEPT !.admin = Some(FALSE)],
                             "send_message: Nice try", "send_message"), db)
            [] OTHER ->
                 LET r == privileged([tasks[t] EXCEPT !.admin = Some(TRUE)],
                                     db, config, fail)
                 IN  Set(t, r.task, r.db)

\* A reply was sent, or sending it failed; every reply ends the handler.
SendMessageReturns(t) ==
    /\ tasks[t].pc = "send_message"
    /\ \E ok \in BOOLEAN :
          Set(t, IF ok THEN Finish(tasks[t]) ELSE Fail(tasks[t], "transport"), db)

GetFileReturns(t) ==
    /\ tasks[t].pc = "get_file"
    /\ \E ok \in BOOLEAN :
          Set(t, IF ok THEN Call(tasks[t], "download_file", "download_file")
                 ELSE Fail(tasks[t], "transport"), db)

DownloadFileReturns(t) ==
    /\ tasks[t].pc = "download_file"
    /\ \E ok \in BOOLEAN :
          Set(t, IF ok THEN after_download(tasks[t])
                 ELSE Fail(tasks[t], "transport"), db)

ImportRecord(t) ==
    /\ tasks[t].pc = "import"
    /\ \E fail \in BOOLEAN :
          LET r == import_record(tasks[t], db, fail)
          IN  Set(t, r.task, r.db)

DeleteMessageReturns(t) ==
    /\ tasks[t].pc = "delete_message"
    /\ \E ok \in BOOLEAN :
          Set(t, IF ok THEN Finish(tasks[t]) ELSE Fail(tasks[t], "transport"), db)

\* The process stops (a crash, a signal) and do_main runs again on the same
\* store: the handlers that were running are gone.
Restart ==
    /\ \E t \in 1..Len(tasks) : ~tasks[t].prior
    /\ tasks' = [t \in 1..Len(tasks) |->
                   [tasks[t] EXCEPT !.prior = TRUE,
                                    !.pc = IF Running(tasks[t]) THEN "aborted" ELSE @]]
    /\ UNCHANGED <<db, config, clock>>

Ids == 1..Len(tasks)

---------------------------------------------------------------------------
(* Spec: every kind of operation on one text of one group chat.            *)

Messages ==
    {Plain(GroupChat, Str_ab),
     Reply(GroupChat, Str_allow, ToText(Str_ab)),
     Reply(GroupChat, Str_forbid, ToText(Str_ab)),
     Upload(GroupChat, Some(Str_import), default_max_import_size, ArchiveShort)}

MaxMessages == 2

\* do_main: the configuration is read, the store at db_path is opened with
\* whatever it holds, no message is being handled.
Init ==
    /\ db \in InitStores
    /\ tasks = <<>>
    /\ config = DefaultConfig
    /\ clock = 0

Next ==
    \/ \E m \in Messages : Dispatch(m, MaxMessages)
    \/ \E t \in Ids : ProcessMessage(t)
    \/ \E t \in Ids : GetChatMemberReturns(t)
    \/ \E t \in Ids : SendMessageReturns(t)
    \/ \E t \in Ids : GetFileReturns(t)
    \/ \E t \in Ids : DownloadFileReturns(t)
    \/ \E t \in Ids : ImportRecord(t)
    \/ \E t \in Ids : DeleteMessageReturns(t)
    \/ Restart

Spec == Init /\ [][Next]_vars

---------------------------------------------------------------------------
(* SpecLive: live messages with one text in two chats, and the overrides   *)
(* sent in the private chat, where no lookup is needed.                    *)

LiveMessages ==
    {Plain(PrivateChat, Str_ab), Plain(GroupChat, Str_ab),
     Reply(PrivateChat, <<32>> \o Str_allow \o <<10>>, ToText(Str_ab)),
     Reply(PrivateChat, Str_forbid, ToText(Str_ab))}

MaxLive == 3

InitLive ==
    /\ db = <<>>
    /\ tasks = <<>>
    /\ config = DefaultConfig
    /\ clock = 0

NextLive ==
    \/ \E m \in LiveMessages : Dispatch(m, MaxLive)
    \/ \E t \in Ids : ProcessMessage(t)
    \/ \E t \in Ids : DeleteMessageReturns(t)
    \/ Restart

SpecLive == InitLive /\ [][NextLive]_vars

---------------------------------------------------------------------------
(* SpecImport: /import uploads in a group chat, of an archive that parses, *)
(* of one that does not and of one that is too large, beside live messages *)
(* with the archive's text.                                                *)

ImportMessages ==
    {Upload(GroupChat, Some(Str_import), default_max_import_size, ArchiveRepeats),
     Upload(GroupChat, Some(Str_import), default_max_import_size + 1, ArchiveRepeats),
     Upload(GroupChat, Some(<<32>> \o Str_import), 1, ArchiveBroken),
     Plain(GroupChat, Str_ab)}

MaxUploads == 2

InitImport ==
    /\ db \in InitStores
    /\ tasks = <<>>
    /\ config = DefaultConfig
    /\ clock = 0

NextImport ==
    \/ \E m \in ImportMessages : Dispatch(m, MaxUploads)
    \/ \E t \in Ids : ProcessMessage(t)
    \/ \E t \in Ids : GetChatMemberReturns(t)
    \/ \E t \in Ids : SendMessageReturns(t)
    \/ \E t \in Ids : GetFileReturns(t)
    \/ \E t \in Ids : DownloadFileReturns(t)
    \/ \E t \in Ids : ImportRecord(t)
    \/ \E t \in Ids : DeleteMessageReturns(t)

SpecImport == InitImport /\ [][NextImport]_vars

---------------------------------------------------------------------------
(* SpecGuard: the admin-only commands in a group chat, where the sender is *)
(* looked up, and in a private chat, where it is not, beside a live        *)
(* message with the text the commands are about.                           *)

GuardMessages ==
    {Plain(GroupChat, Str_ab),
     Reply(GroupChat, Str_allow, ToText(Str_ab)),
     Reply(GroupChat, Str_forbid, ToText(Str_ab)),
     Upload(GroupChat, Some(Str_import), 1, ArchiveShort),
     Reply(PrivateChat, Str_forbid, ToText(Str_ab)),
     Upload(PrivateChat, Some(Str_import), 1, ArchiveShort)}

MaxGuard == 2

InitGuard ==
    /\ db = <<>>
    /\ tasks = <<>>
    /\ config = DefaultConfig
    /\ clock = 0

NextGuard ==
    \/ \E m \in GuardMessages : Dispatch(m, MaxGuard)
    \/ \E t \in Ids : ProcessMessage(t)
    \/ \E t \in Ids : GetChatMemberReturns(t)
    \/ \E t \in Ids : SendMessageReturns(t)
    \/ \E t \in Ids : GetFileReturns(t)
    \/ \E t \in Ids : DownloadFileReturns(t)
    \/ \E t \in Ids : ImportRecord(t)
    \/ \E t \in Ids : DeleteMessageReturns(t)

SpecGuard == InitGuard /\ [][NextGuard]_vars

---------------------------------------------------------------------------
(* SpecToggle: replies that are no commands and the messages the handler   *)
(* ignores, beside plain messages with the same text, under both values of *)
(* allow_duplicates_in_replies.                                            *)

ToggleMessages ==
    {Plain(GroupChat, Str_ab),
     Reply(GroupChat, Str_ab, ToText(Str_b)),
     Anonymous(GroupChat, Str_ab),
     Photo(GroupChat, Some(Str_import)),
     Upload(GroupChat, Some(Str_ab), 1, ArchiveShort)}

MaxToggle == 3

InitToggle ==
    /\ db = <<>>
    /\ tasks = <<>>
    /\ config \in {DefaultConfig, ExemptConfig}
    /\ clock = 0

NextToggle ==
    \/ \E m \in ToggleMessages : Dispatch(m, MaxToggle)
    \/ \E t \in Ids : ProcessMessage(t)
    \/ \E t \in Ids : DeleteMessageReturns(t)

SpecToggle == InitToggle /\ [][NextToggle]_vars

---------------------------------------------------------------------------
(* SpecCommand: /allow and /forbid sent in reply to a text and in reply to *)
(* a document, under both values of allow_duplicates_in_replies.           *)

CommandMessages ==
    {Reply(GroupChat, Str_allow, ToDocument),
     Reply(GroupChat, Str_allow, ToText(Str_ab)),
     Reply(GroupChat, Str_forbid, ToText(Str_ab))}

MaxCommand == 3

InitCommand ==
    /\ db = <<>>
    /\ tasks = <<>>
    /\ config \in {DefaultConfig, ExemptConfig}
    /\ clock = 0

NextCommand ==
    \/ \E m \in CommandMessages : Dispatch(m, MaxCommand)
    \/ \E t \in Ids : ProcessMessage(t)
    \/ \E t \in Ids : GetChatMemberReturns(t)
    \/ \E t \in Ids : SendMessageReturns(t)
    \/ \E t \in Ids : DeleteMessageReturns(t)

SpecCommand == InitCommand /\ [][NextCommand]_vars

---------------------------------------------------------------------------
(* SpecStall: the tasks of SpecGuard's group chat, scheduled fairly and    *)
(* with transport calls that return, but for the first task, which may     *)
(* stay for ever where it is: not yet started, in a transport call, or in  *)
(* the import loop.                                                        *)

StallMessages ==
    {Plain(GroupChat, Str_ab),
     Reply(GroupChat, Str_allow, ToText(Str_ab)),
     Upload(GroupChat, Some(Str_import), 1, ArchiveShort)}

MaxStall == 2

InitStall ==
    /\ db \in InitStores
    /\ tasks = <<>>
    /\ config = DefaultConfig
    /\ clock = 0

\* Any step of task t.
Step(t) ==
    /\ t \in Ids
    /\ \/ ProcessMessage(t)
       \/ GetChatMemberReturns(t)
       \/ SendMessageReturns(t)
       \/ GetFileReturns(t)
       \/ DownloadFileReturns(t)
       \/ ImportRecord(t)
       \/ DeleteMessageReturns(t)

NextStall ==
    \/ \E m \in StallMessages : Dispatch(m, MaxStall)
    \/ \E t \in Ids : ProcessMessage(t)
    \/ \E t \in Ids : GetChatMemberReturns(t)
    \/ \E t \in Ids : SendMessageReturns(t)
    \/ \E t \in Ids : GetFileReturns(t)
    \/ \E t \in Ids : DownloadFileReturns(t)
    \/ \E t \in Ids : ImportRecord(t)
    \/ \E t \in Ids : DeleteMessageReturns(t)

\* Task t can take a step: it has not ended and can use its Robot9000.
\* This is ENABLED <<Step(t)>>_vars, every step of a task changing its pc
\* or its loop position.
Ready(t) == t \in Ids /\ Running(tasks[t]) /\ Free(t)

\* Weak fairness of the steps of task t, that is WF_vars(Step(t)) with its
\* enabling condition written out.
Fair(t) == []<>(~Ready(t)) \/ []<><<Step(t)>>_vars

\* The tokio runtime polls every task that can move, and every transport
\* call of a task other than the first returns.
SpecStall ==
    /\ InitStall /\ [][NextStall]_vars
    /\ \A t \in 2..MaxStall : Fair(t)

---------------------------------------------------------------------------
(* Vocabulary of the properties *)

\* A live text message that is no reply.
IsPlain(task) ==
    task.msg.kind = "text" /\ task.msg.from # None /\ task.msg.reply_to = None

\* delete_message was issued for the task's message.
Deleted(task) == \E n \in 1..Len(task.calls) : task.calls[n] = "delete_message"

\* The task has completed a store operation.
Processed(task) == task.stores > 0

\* The text a task's store operation is about: the replied-to text of an
\* override, the message's own text otherwise.
OpText(task) ==
    IF Verb(task.msg) \in {"allow", "forbid"}
    THEN task.msg.reply_to[1].text
    ELSE task.msg.text

SameText(a, b) == a.msg.chat.id = b.msg.chat.id /\ OpText(a) = OpText(b)

\* The override `verb` that task a carries has been applied.
Applied(a, verb) == Verb(a.msg) = verb /\ Processed(a)

\* An /allow or /forbid for the text of `task` has been sent, applied or not.
Overridden(task) ==
    \E u \in Ids : /\ Verb(tasks[u].msg) \in {"allow", "forbid"}
                    /\ tasks[u].msg.from # None
                    /\ SameText(tasks[u], task)

\* The plain messages with the text of `task` whose store_message is done.
LiveLike(task) ==
    {u \in Ids : IsPlain(tasks[u]) /\ Processed(tasks[u]) /\ SameText(tasks[u], task)}

---------------------------------------------------------------------------
(* Duplicate detection on live messages (SpecLive) *)

\* C1: for a text for which no /allow or /forbid was ever sent, the first
\* plain message processed, when it meets an absent entry, is not deleted
\* and leaves the entry Seen; every plain message with that text processed
\* after another one is deleted, across restarts too.
C1_FirstStaysRepeatsDeleted ==
    \A t \in Ids :
        (IsPlain(tasks[t]) /\ Processed(tasks[t]) /\ ~Overridden(tasks[t])) =>
            LET earlier == {u \in LiveLike(tasks[t]) : tasks[u].at < tasks[t].at}
            IN  /\ (earlier = {} /\ tasks[t].found = "absent") =>
                       /\ ~Deleted(tasks[t])
                       /\ EntryState(db, tasks[t].hash) = "seen"
                /\ earlier # {} => Deleted(tasks[t])

\* A first message handled by one run of the process stands; two repeats
\* handled by the next run are both deleted.
C1_Witness ==
    \E t, u, v \in Ids :
        /\ u # v
        /\ \A x \in {t, u, v} : IsPlain(tasks[x]) /\ Processed(tasks[x])
        /\ SameText(tasks[t], tasks[u]) /\ SameText(tasks[t], tasks[v])
        /\ ~Overridden(tasks[t])
        /\ tasks[t].found = "absent" /\ ~Deleted(tasks[t]) /\ tasks[t].prior
        /\ Deleted(tasks[u]) /\ ~tasks[u].prior
        /\ Deleted(tasks[v]) /\ ~tasks[v].prior

\* The plain messages with the text of `task` that were dispatched while
\* the entry was absent: they race for it.
Racers(task) ==
    {u \in Ids : IsPlain(tasks[u]) /\ SameText(tasks[u], task) /\ tasks[u].was = "absent"}

\* C3: of two or more plain messages with one text, all dispatched while the
\* entry was absent and with no override sent for it, exactly one of those
\* processed so far is left standing, the one that met the absent entry;
\* every other one met it Seen and is deleted.
C3_ExactlyOneRacerSurvives ==
    \A t \in Ids :
        LET racers == Racers(tasks[t])
            done == {u \in racers : Processed(tasks[u])}
        IN  (t \in done /\ Cardinality(racers) >= 2 /\ ~Overridden(tasks[t])) =>
                /\ Cardinality({u \in done : ~Deleted(tasks[u])}) = 1
                /\ \A u \in done :
                       \/ tasks[u].found = "absent" /\ ~Deleted(tasks[u])
                       \/ tasks[u].found = "seen" /\ Deleted(tasks[u])

\* Messages in flight together from the start; all processed; one stands.
C3_Witness ==
    \E t \in Ids :
        LET racers == Racers(tasks[t])
        IN  /\ Cardinality(racers) >= 2
            /\ t \in racers
            /\ ~Overridden(tasks[t])
            /\ \A u \in racers : Processed(tasks[u])
            /\ Cardinality({u \in racers : Deleted(tasks[u])}) = Cardinality(racers) - 1

\* An /allow was the last override applied to the text of `task` when it
\* was dispatched, and no /forbid for it was applied between that /allow and
\* the store operation of `task`.
AllowedBefore(task) ==
    /\ task.ov.verb = "allow"
    /\ \A f \in Ids :
          (Applied(tasks[f], "forbid") /\ SameText(tasks[f], task)) =>
              (tasks[f].at < task.ov.at \/ tasks[f].at > task.at)

\* C5: a plain message dispatched after an /allow for its text was applied,
\* with no /forbid applied since, is not deleted: its store_message meets the
\* entry Allowed.
C5_AllowedNeverDeleted ==
    \A t \in Ids :
        (IsPlain(tasks[t]) /\ Processed(tasks[t]) /\ AllowedBefore(tasks[t])) =>
            ~Deleted(tasks[t]) /\ tasks[t].found = "allowed"

\* An /allow, then the text twice: both messages stand.
C5_Witness ==
    \E t, u \in Ids :
        /\ t # u
        /\ SameText(tasks[t], tasks[u])
        /\ \A x \in {t, u} :
              /\ IsPlain(tasks[x]) /\ Processed(tasks[x]) /\ AllowedBefore(tasks[x])
              /\ tasks[x].pc = "ok" /\ ~Deleted(tasks[x])

\* A /forbid that met the entry absent or Allowed was the last override
\* applied to the text of `task` when it was dispatched, and no /allow for it
\* was applied between that /forbid and the store operation of `task`.
ForbiddenBefore(task) ==
    /\ task.ov.verb = "forbid"
    /\ task.ov.found \in {"absent", "allowed"}
    /\ \A a \in Ids :
          (Applied(tasks[a], "allow") /\ SameText(tasks[a], task)) =>
              (tasks[a].at < task.ov.at \/ tasks[a].at > task.at)

\* C6: a plain message dispatched after a /forbid for its text was applied to
\* an absent or Allowed entry, with no /allow applied since, is deleted, the
\* first such message and every later one.
C6_ForbiddenDeletedAtOnce ==
    \A t \in Ids :
        (IsPlain(tasks[t]) /\ Processed(tasks[t]) /\ ForbiddenBefore(tasks[t])) =>
            Deleted(tasks[t]) /\ tasks[t].found = "seen"

\* A /forbid on a text never sent, then the text twice: both are deleted.
C6_Witness ==
    \E t, u \in Ids :
        /\ t # u
        /\ SameText(tasks[t], tasks[u])
        /\ \A x \in {t, u} :
              /\ IsPlain(tasks[x]) /\ Processed(tasks[x])
              /\ ForbiddenBefore(tasks[x]) /\ tasks[x].ov.found = "absent"
              /\ Deleted(tasks[x])

\* Some task of the chat of `task` operated on the text of `task` before it.
TouchedBefore(task) ==
    \E u \in Ids :
        /\ Processed(tasks[u]) /\ SameText(tasks[u], task)
        /\ tasks[u].at < task.at

\* Chats and texts of the messages handled so far.
ChatIds == {tasks[t].msg.chat.id : t \in Ids}
Texts == {OpText(tasks[t]) : t \in Ids}

\* C8: what is recorded, allowed or forbidden in one chat leaves the entry of
\* the same text in another chat as it was: an entry on which no task of
\* its own chat has operated is absent, and the first plain message with
\* the text in that chat meets it absent and is not deleted.
C8_OtherChatsUntouched ==
    /\ \A c \in ChatIds, x \in Texts :
          (\A u \in Ids : ~(Processed(tasks[u]) /\ tasks[u].msg.chat.id = c
                             /\ OpText(tasks[u]) = x))
              => EntryState(db, hash_message(c, x)) = "absent"
    /\ \A t \in Ids :
          (IsPlain(tasks[t]) /\ Processed(tasks[t]) /\ ~TouchedBefore(tasks[t])) =>
              tasks[t].found = "absent" /\ ~Deleted(tasks[t])

\* The text was recorded and then allowed in one chat before its first
\* message in the other chat, which stands.
C8_Witness ==
    \E t, u, v \in Ids :
        /\ IsPlain(tasks[t]) /\ Processed(tasks[t]) /\ ~Deleted(tasks[t])
        /\ IsPlain(tasks[u]) /\ Processed(tasks[u])
        /\ Applied(tasks[v], "allow")
        /\ \A x \in {u, v} :
              /\ tasks[x].msg.chat.id # tasks[t].msg.chat.id
              /\ OpText(tasks[x]) = OpText(tasks[t])
              /\ tasks[x].at < tasks[t].at

---------------------------------------------------------------------------
(* The store's operations and entries (C2 under SpecLive, C4 and C7 under  *)
(* Spec)                                                                   *)

\* Task t completes a store_message in this step.
StoreMessageNow(t) ==
    /\ tasks'[t].stores = tasks[t].stores + 1
    /\ Verb(tasks[t].msg) \notin {"allow", "forbid"}

\* Task t applies its override `verb` in this step.
AppliedNow(t, verb) ==
    /\ tasks'[t].stores = tasks[t].stores + 1
    /\ Verb(tasks[t].msg) = verb

\* The sender of t's command was found to be an admin: the chat is private,
\* or this step is the answer of get_chat_member.
Authorized(t) == tasks[t].msg.chat.private \/ tasks[t].pc = "get_chat_member"

\* C2 (as amended): store_message on an absent entry sets it to Seen and
\* returns false; on a Seen entry it changes nothing and returns true; on an
\* Allowed entry it changes nothing and returns false.  The result sets Seen
\* apart from absent and Allowed, which it does not tell apart.
C2_StoreMessageByState ==
    [][\A t \in Ids :
         StoreMessageNow(t) =>
             LET k == tasks'[t].hash
                 pre == EntryState(db, k)
             IN  /\ tasks'[t].found = pre
                 /\ pre = "absent" => db' = SledInsert(db, k, SeenValue) /\ ~tasks'[t].ret
                 /\ pre = "seen" => db' = db /\ tasks'[t].ret
                 /\ pre = "allowed" => db' = db /\ ~tasks'[t].ret]_vars

\* A store_message that met an absent entry and one that met an Allowed
\* entry both returned false, and neither message was deleted.
C2_Witness ==
    \E t, u \in Ids :
        /\ IsPlain(tasks[t]) /\ Processed(tasks[t])
        /\ tasks[t].found = "allowed" /\ ~tasks[t].ret /\ ~Deleted(tasks[t])
        /\ IsPlain(tasks[u]) /\ Processed(tasks[u])
        /\ tasks[u].found = "absent" /\ ~tasks[u].ret /\ ~Deleted(tasks[u])

\* The tasks whose last store operation was a store_message.
Stored == {t \in Ids : Processed(tasks[t]) /\ Verb(tasks[t].msg) \notin {"allow", "forbid"}}

\* C2 (as stated): the result of store_message tells an absent entry from
\* a present one and does not tell a Seen entry from an Allowed one.
C2_AsStated ==
    \A t, u \in Stored :
        /\ (tasks[t].found = "absent" /\ tasks[u].found # "absent") =>
               tasks[t].ret # tasks[u].ret
        /\ (tasks[t].found # "absent" /\ tasks[u].found # "absent") =>
               tasks[t].ret = tasks[u].ret

\* C4: an entry leaves Allowed only in a step that applies the /forbid of
\* an admin to it, and then it is Seen; live messages and imports leave it
\* Allowed.  An /allow of an admin leaves its entry Allowed, whatever it was.
C4_AllowedUntilForbid ==
    [][/\ \A k \in DOMAIN db :
            (EntryState(db, k) = "allowed" /\ EntryState(db', k) # "allowed") =>
                /\ EntryState(db', k) = "seen"
                /\ \E t \in Ids : /\ AppliedNow(t, "forbid") /\ Authorized(t)
                                   /\ tasks'[t].hash = k
       /\ \A t \in Ids :
            AppliedNow(t, "allow") =>
                /\ Authorized(t)
                /\ EntryState(db', tasks'[t].hash) = "allowed"]_vars

\* A live message and an import record both met the entry Allowed, and it
\* is Allowed still.
C4_Witness ==
    \E t, u \in Ids :
        /\ IsPlain(tasks[t]) /\ Processed(tasks[t]) /\ tasks[t].found = "allowed"
        /\ Verb(tasks[u].msg) = "import" /\ Processed(tasks[u])
        /\ tasks[u].found = "allowed" /\ tasks[u].hash = tasks[t].hash
        /\ EntryState(db, tasks[t].hash) = "allowed"

\* C7: an entry that is present stays present: no step removes a key.
C7_EntriesStay ==
    [][\A k \in DOMAIN db : k \in DOMAIN db']_vars

\* An entry is present after a /forbid was applied, a store operation
\* failed and the process was restarted.
C7_Witness ==
    \E t, u \in Ids :
        /\ Applied(tasks[t], "forbid") /\ tasks[t].hash \in DOMAIN db
        /\ tasks[u].err = "store" /\ tasks[u].prior /\ ~tasks[t].prior

---------------------------------------------------------------------------
(* Import (SpecImport) *)

IsImport(task) == task.msg.from # None /\ Verb(task.msg) = "import"

\* The import ran its loop to the end and sent the reply with the count.
Counted(task) ==
    \E n \in 1..Len(task.calls) : task.calls[n] = "send_message: imported"

\* C9 (as stated): the count an import reports is the number of its message
\* records that met an absent entry.
C9_CountIsNewlyRecorded ==
    \A t \in Ids :
        (IsImport(tasks[t]) /\ Counted(tasks[t])) => tasks[t].count = tasks[t].fresh

IsPrefix(a, b) == Len(a) <= Len(b) /\ SubSeq(b, 1, Len(a)) = a

\* The transport calls of an /import, in order, by outcome; a private chat
\* needs no lookup.
ImportCalls(chat) ==
    LET lookup == IF chat.private THEN <<>> ELSE <<"get_chat_member">>
    IN  {lookup \o <<"send_message: Nice try">>,
         lookup \o <<"send_message: too large">>,
         lookup \o <<"get_file", "download_file", "send_message: parse error">>,
         lookup \o <<"get_file", "download_file", "send_message: imported">>}

\* C10: the handler of a document message issues no delete_message: its
\* transport calls are the lookup, then at most get_file, download_file and
\* one reply, whatever the archive holds and whatever the outcome.
C10_ImportNeverDeletes ==
    \A t \in Ids :
        tasks[t].msg.kind = "document" =>
            /\ ~Deleted(tasks[t])
            /\ \E calls \in ImportCalls(tasks[t].msg.chat) :
                   IsPrefix(tasks[t].calls, calls)

\* An import whose records all met a Seen entry ended with its reply.
C10_Witness ==
    \E t \in Ids :
        /\ IsImport(tasks[t]) /\ Counted(tasks[t]) /\ tasks[t].pc = "ok"
        /\ tasks[t].stores = 2 /\ tasks[t].fresh = 0 /\ tasks[t].count = 0
        /\ tasks[t].found = "seen"

---------------------------------------------------------------------------
(* Authorization (SpecGuard) *)

\* The task carries an admin-only command.
IsCommand(task) == task.msg.from # None /\ Verb(task.msg) # "none"

\* is_admin answered that the sender of the task's command is no admin.
Refused(task) == IsCommand(task) /\ task.admin = Some(FALSE)

\* The task moves in this step.
Moves(t) == tasks'[t] # tasks[t]

\* Some store operation on the text of `task` has completed: an override
\* applied, or an import that has recorded it.
Operated(task) ==
    \E u \in Ids : /\ IsCommand(tasks[u]) /\ Processed(tasks[u])
                    /\ tasks[u].msg.chat.id = task.msg.chat.id
                    /\ tasks[u].hash = hash_message(task.msg.chat.id, task.msg.text)

\* The live messages follow the default behaviour: the first one processed
\* meets the entry absent and stands, every other one meets it Seen and is
\* deleted.
DefaultDedup(task) ==
    LET earlier == {u \in LiveLike(task) : tasks[u].at < task.at}
    IN  IF earlier = {}
        THEN task.found = "absent" /\ ~Deleted(task)
        ELSE task.found = "seen" /\ Deleted(task)

\* C11: a command whose sender is no admin gets the reply "Nice try" and
\* nothing else: its task completes no store operation, issues no other
\* transport call than the lookup and that reply, is not deleted, and no
\* step of it changes the store; the live messages with the text it was
\* about are handled by the default behaviour all the same.
C11_RefusedChangesNothing ==
    /\ [](\A t \in Ids :
            /\ Refused(tasks[t]) =>
                  /\ tasks[t].calls = <<"get_chat_member", "send_message: Nice try">>
                  /\ tasks[t].stores = 0 /\ tasks[t].hash = <<>>
                  /\ ~Deleted(tasks[t])
            /\ (IsPlain(tasks[t]) /\ Processed(tasks[t]) /\ ~Operated(tasks[t])) =>
                  DefaultDedup(tasks[t]))
    /\ [][\A t \in Ids :
            (Moves(t) /\ IsCommand(tasks[t]) /\ tasks'[t].admin # Some(TRUE)) =>
                db' = db]_vars

\* A /forbid and an /import for a text were both refused, and ended with
\* their reply; nothing is recorded.
C11_Witness ==
    \E t, u \in Ids :
        /\ Refused(tasks[t]) /\ Verb(tasks[t].msg) = "forbid" /\ tasks[t].pc = "ok"
        /\ Refused(tasks[u]) /\ Verb(tasks[u].msg) = "import" /\ tasks[u].pc = "ok"
        /\ db = <<>>

\* The lookup of the sender of the task's command failed.
LookupFailed(task) ==
    /\ IsCommand(task) /\ task.err = "transport"
    /\ task.calls = <<"get_chat_member">>

\* The future that carries out the task's command has started.
Started(task) ==
    CASE Verb(task.msg) = "import" ->
             /\ Len(task.calls) >= 1
             /\ task.calls[1] \in {"get_file", "send_message: too large"}
      [] OTHER -> Processed(task) \/ task.err = "store"

\* C16: in a private chat the sender of a command is taken for an admin and
\* the command is carried out at once, without a lookup; in a group chat a
\* failed lookup ends the task with that error: is_admin has no answer, no
\* reply is sent, no store operation is done, the message is not deleted,
\* and the step leaves the store as it was.
C16_PrivateOrLookup ==
    /\ [](\A t \in Ids :
            /\ (IsCommand(tasks[t]) /\ tasks[t].msg.chat.private /\ tasks[t].pc # "start") =>
                  /\ tasks[t].admin = Some(TRUE) /\ Started(tasks[t])
                  /\ \A n \in 1..Len(tasks[t].calls) : tasks[t].calls[n] # "get_chat_member"
            /\ (IsCommand(tasks[t]) /\ ~tasks[t].msg.chat.private /\ tasks[t].pc # "start") =>
                  tasks[t].calls[1] = "get_chat_member"
            /\ LookupFailed(tasks[t]) =>
                  /\ tasks[t].pc = "err" /\ tasks[t].admin = None
                  /\ tasks[t].stores = 0 /\ tasks[t].hash = <<>>)
    /\ [][\A t \in Ids :
            (Moves(t) /\ LookupFailed(tasks'[t])) => db' = db /\ tasks[t].pc = "get_chat_member"]_vars

\* A /forbid and an /import in the private chat were carried out, and the
\* lookup for an /allow in the group chat failed.
C16_Witness ==
    \E t, u \in Ids :
        /\ tasks[t].msg.chat.private /\ Applied(tasks[t], "forbid")
        /\ EntryState(db, tasks[t].hash) = "seen"
        /\ LookupFailed(tasks[u])

---------------------------------------------------------------------------
(* Failures of an import (SpecImport) *)

\* An /import whose sender was found to be an admin.
Admitted(task) == IsImport(task) /\ task.admin = Some(TRUE)

\* The task has ended with a transport error, or has not ended in error.
NoStoreError(task) == task.err \in {"none", "transport"}

\* C13: an /import of an admin whose document is larger than
\* max_import_size gets one reply made of the document's size and the
\* maximum, and nothing else: no get_file, no download_file, no parsing, no
\* store operation, and the task ends without error once the reply is
\* sent; a document of exactly max_import_size is fetched.
C13_TooLargeIsRefused ==
    \A t \in Ids :
        Admitted(tasks[t]) =>
            LET task == tasks[t]
                size == task.msg.document.file_size
            IN  /\ size > config.max_import_size =>
                      /\ task.calls = <<"get_chat_member", "send_message: too large">>
                      /\ task.reply = <<size, config.max_import_size>>
                      /\ task.stores = 0 /\ task.import = <<>> /\ task.i = 0
                      /\ task.pc \in {"send_message", "ok", "err"}
                      /\ task.err \in {"none", "transport"}
                /\ size <= config.max_import_size =>
                      /\ Len(task.calls) >= 2 /\ task.calls[2] = "get_file"
                      /\ task.reply = <<>>

\* A document one byte over the maximum was refused and one of exactly
\* the maximum was imported.
C13_Witness ==
    \E t, u \in Ids :
        /\ Admitted(tasks[t]) /\ tasks[t].pc = "ok"
        /\ tasks[t].msg.document.file_size = config.max_import_size + 1
        /\ tasks[t].reply = <<config.max_import_size + 1, config.max_import_size>>
        /\ Admitted(tasks[u]) /\ tasks[u].pc = "ok" /\ Counted(tasks[u])
        /\ tasks[u].msg.document.file_size = config.max_import_size

\* The archive of the task's document has been downloaded.
Downloaded(task) ==
    \E n \in 1..Len(task.calls) :
        /\ task.calls[n] = "download_file"
        /\ n < Len(task.calls) \/ task.import # <<>>

\* The archive is an object whose `messages` are all well-formed records.
WellFormed(doc) ==
    /\ JHas(doc, "messages") /\ doc.v["messages"].j = "arr"
    /\ \A n \in 1..Len(doc.v["messages"].v) : MessageOk(doc.v["messages"].v[n])

\* C14: an archive that fails to parse gets the reply with the parse error
\* and nothing of it is recorded: the task does no store operation, and it
\* ends without error once the reply is sent; an import that has done a
\* store operation has an archive that parses as a whole.
C14_ParseFailureRecordsNothing ==
    \A t \in Ids :
        IsImport(tasks[t]) =>
            LET task == tasks[t]
                ok == WellFormed(task.msg.document.file)
            IN  /\ (Downloaded(task) /\ ~ok) =>
                      /\ task.calls = <<"get_chat_member", "get_file", "download_file",
                                        "send_message: parse error">>
                      /\ task.pc \in {"send_message", "ok", "err"}
                      /\ NoStoreError(task)
                /\ ~ok => task.stores = 0 /\ task.import = <<>> /\ ~Counted(task)
                /\ task.stores > 0 =>
                      ok /\ Len(task.import) = Len(task.msg.document.file.v["messages"].v)

\* The archive whose second record is malformed was downloaded, the reply
\* was sent, the store is empty.
C14_Witness ==
    \E t \in Ids :
        /\ IsImport(tasks[t]) /\ Downloaded(tasks[t])
        /\ ~WellFormed(tasks[t].msg.document.file)
        /\ MessageOk(tasks[t].msg.document.file.v["messages"].v[1])
        /\ tasks[t].pc = "ok" /\ db = <<>>

\* A store operation of the import failed.
StoreFailed(task) == IsImport(task) /\ task.err = "store"

\* C15: a store operation that fails at a record ends the import with that
\* error: the failing step records nothing and leaves the store and the
\* loop's position as they were, what was recorded before is in the store,
\* no reply with a count is sent, and the task never moves again.
C15_StoreFailureStopsImport ==
    /\ [](\A t \in Ids :
            StoreFailed(tasks[t]) =>
                /\ tasks[t].pc = "err" /\ ~Counted(tasks[t])
                /\ tasks[t].i \in 1..Len(tasks[t].import)
                /\ tasks[t].import[tasks[t].i].type = Str_message
                /\ tasks[t].stores > 0 => tasks[t].hash \in DOMAIN db)
    /\ [][\A t \in Ids :
            /\ (Moves(t) /\ StoreFailed(tasks'[t])) =>
                  /\ db' = db
                  /\ tasks'[t] = Fail(tasks[t], "store")
            /\ StoreFailed(tasks[t]) => ~Moves(t)]_vars

\* The import recorded its first record and failed at its third: the first
\* is in the store, no count was sent.
C15_Witness ==
    \E t \in Ids :
        /\ StoreFailed(tasks[t]) /\ tasks[t].i = 3
        /\ tasks[t].stores = 1 /\ tasks[t].fresh = 1
        /\ EntryState(db, tasks[t].hash) = "seen"

---------------------------------------------------------------------------
(* Replies and ignored messages (SpecToggle) *)

\* A text message of a sender that replies to another message.
IsReply(task) ==
    task.msg.kind = "text" /\ task.msg.from # None /\ task.msg.reply_to # None

\* A reply that reply_command does not take for a command.
PlainReply(task) == IsReply(task) /\ reply_command(task.msg) = "none"

\* The task ended at once: no store operation, no transport call.
Skipped(task) ==
    /\ task.pc \in {"start", "ok"} /\ task.err = "none"
    /\ task.stores = 0 /\ task.hash = <<>> /\ task.calls = <<>>

\* The task has run store_message on its message's own text and deletes
\* the message exactly when it met the entry Seen.
Deduplicated(task) ==
    /\ Processed(task) /\ task.stores = 1
    /\ task.hash = hash_message(task.msg.chat.id, task.msg.text)
    /\ Deleted(task) <=> task.found = "seen"
    /\ task.ret <=> task.found = "seen"

\* The task has left "start" and its store operation did not fail.
Handled(task) == task.pc # "start" /\ task.err # "store"

\* C18: with allow_duplicates_in_replies set, a reply that is no command is
\* skipped: no store operation and no delete_message, whatever the store
\* holds for its text; with it unset, the reply goes through store_message
\* on its own text and is deleted exactly when the entry was Seen.
C18_RepliesExemptByToggle ==
    \A t \in Ids :
        PlainReply(tasks[t]) =>
            IF config.allow_duplicates_in_replies
            THEN Skipped(tasks[t]) /\ ~Deleted(tasks[t])
            ELSE Handled(tasks[t]) => Deduplicated(tasks[t])

\* The text is Seen twice over; with the toggle set a reply with that text
\* has ended and stands.
C18_Witness ==
    \E t, u, v \in Ids :
        /\ config.allow_duplicates_in_replies
        /\ IsPlain(tasks[t]) /\ Processed(tasks[t])
        /\ IsPlain(tasks[u]) /\ Deleted(tasks[u])
        /\ PlainReply(tasks[v]) /\ SameText(tasks[v], tasks[t])
        /\ tasks[v].was = "seen" /\ tasks[v].pc = "ok" /\ ~Deleted(tasks[v])

\* A message the handler has nothing to do with: no sender, or neither a
\* text nor a document.
Ignored(task) ==
    \/ task.msg.from = None
    \/ task.msg.kind \notin {"text", "document"}
    \/ task.msg.kind = "document" /\ Verb(task.msg) # "import"

\* C20: with allow_duplicates_in_replies set, a reply that is no command
\* leaves the store as it was, so that the first plain message processed
\* with its text meets the entry absent and stands; a message without a
\* sender, and one that is neither a text nor a document captioned
\* /import, is skipped and leaves the store as it was.
C20_ExemptAndIgnoredLeaveNoTrace ==
    /\ [](\A t \in Ids :
            /\ Ignored(tasks[t]) => Skipped(tasks[t])
            /\ (config.allow_duplicates_in_replies
                   /\ IsPlain(tasks[t]) /\ Processed(tasks[t])
                   /\ \A u \in LiveLike(tasks[t]) : tasks[u].at >= tasks[t].at) =>
                  tasks[t].found = "absent" /\ ~Deleted(tasks[t]))
    /\ [][\A t \in Ids :
            (Moves(t) /\ (Ignored(tasks[t])
                            \/ (PlainReply(tasks[t]) /\ config.allow_duplicates_in_replies))) =>
                db' = db /\ clock' = clock]_vars

\* With the toggle set, a reply, a message without a sender and a photo
\* captioned /import have ended, and the plain message dispatched after
\* them, with the text of the first two, met the entry absent and stands.
C20_Witness ==
    \E r, t \in Ids :
        /\ config.allow_duplicates_in_replies
        /\ PlainReply(tasks[r]) /\ tasks[r].pc = "ok" /\ r < t
        /\ IsPlain(tasks[t]) /\ SameText(tasks[t], tasks[r])
        /\ tasks[t].found = "absent" /\ tasks[t].pc = "ok"
        /\ \E a \in Ids : Ignored(tasks[a]) /\ tasks[a].pc = "ok"

---------------------------------------------------------------------------
(* Commands in replies (SpecCommand) *)

\* A reply whose text is a command word and whose replied-to message is no
\* text.
Pseudo(task) ==
    /\ IsReply(task) /\ task.msg.reply_to[1].kind # "text"
    /\ Trim(task.msg.text) \in {Str_allow, Str_forbid}

\* No lookup of the sender and no override: is_admin was not asked, and the
\* only transport call the task may have issued is delete_message.
NoCommand(task) ==
    /\ task.admin = None
    /\ \A n \in 1..Len(task.calls) : task.calls[n] = "delete_message"
    /\ task.stores > 0 => task.hash = hash_message(task.msg.chat.id, task.msg.text)

\* C12 (as amended): a reply to a message that is no text, with the text
\* /allow or /forbid, is no command: no lookup, no override.  It is handled
\* as any reply that is no command: with allow_duplicates_in_replies unset
\* it goes through store_message on its own text and is deleted exactly
\* when the entry was Seen; with it set it is skipped.
C12_ReplyToNonTextIsNoCommand ==
    \A t \in Ids :
        Pseudo(tasks[t]) =>
            /\ NoCommand(tasks[t])
            /\ EntryState(db, tasks[t].hash) # "allowed"
            /\ IF config.allow_duplicates_in_replies
               THEN Skipped(tasks[t])
               ELSE Handled(tasks[t]) => Deduplicated(tasks[t])

\* With the toggle unset, /allow was sent twice in reply to a document: the
\* first met the entry of "/allow" absent and stands, the second met it
\* Seen and is deleted.
C12_Witness ==
    \E t, u \in Ids :
        /\ ~config.allow_duplicates_in_replies
        /\ Pseudo(tasks[t]) /\ tasks[t].found = "absent" /\ tasks[t].pc = "ok"
        /\ Pseudo(tasks[u]) /\ tasks[u].found = "seen" /\ Deleted(tasks[u])

\* C12 (as stated): under every configuration such a reply goes through
\* store_message on its own text and is deleted when the entry was Seen.
C12_AsStated ==
    \A t \in Ids :
        (Pseudo(tasks[t]) /\ Handled(tasks[t])) =>
            NoCommand(tasks[t]) /\ Deduplicated(tasks[t])

\* The value an override writes.
MarkerOf(verb) == IF verb = "allow" THEN AllowedValue ELSE SeenValue

\* An /allow or /forbid in reply to a text.
IsOverride(task) == IsCommand(task) /\ Verb(task.msg) \in {"allow", "forbid"}

\* C19: an /allow or /forbid of an admin, in reply to a text, writes the
\* marker of the replied-to text in the chat of the command and changes no
\* other entry, under either value of allow_duplicates_in_replies; its task
\* then ends: one store operation, none on the command's own text, and no
\* delete_message, however often the command is sent.
C19_OverrideThenStop ==
    /\ [](\A t \in Ids :
            IsOverride(tasks[t]) =>
                /\ ~Deleted(tasks[t])
                /\ tasks[t].stores <= 1
                /\ tasks[t].pc = "ok" => Refused(tasks[t]) \/ Processed(tasks[t])
                /\ Processed(tasks[t]) =>
                      /\ tasks[t].admin = Some(TRUE) /\ tasks[t].pc = "ok"
                      /\ tasks[t].hash = hash_message(tasks[t].msg.chat.id,
                                                       tasks[t].msg.reply_to[1].text)
                      /\ tasks[t].hash # hash_message(tasks[t].msg.chat.id,
                                                       tasks[t].msg.text))
    /\ [][\A t \in Ids :
            (Moves(t) /\ IsOverride(tasks[t])) =>
                IF tasks'[t].stores > tasks[t].stores
                THEN db' = SledInsert(db, hash_message(tasks[t].msg.chat.id,
                                                       tasks[t].msg.reply_to[1].text),
                                      MarkerOf(Verb(tasks[t].msg)))
                ELSE db' = db]_vars

\* With the toggle set, /allow for one text was applied twice; both
\* commands stand and "/allow" has no entry.
C19_Witness ==
    \E t, u \in Ids :
        /\ t # u /\ config.allow_duplicates_in_replies
        /\ \A x \in {t, u} : Applied(tasks[x], "allow") /\ tasks[x].pc = "ok"
        /\ EntryState(db, tasks[t].hash) = "allowed"
        /\ EntryState(db, hash_message(tasks[t].msg.chat.id, tasks[t].msg.text)) = "absent"

---------------------------------------------------------------------------
(* Tasks do not wait for each other (SpecStall) *)

\* The task is suspended in a transport call.
Suspended(task) ==
    task.pc \in {"get_chat_member", "send_message", "get_file", "download_file",
                 "delete_message"}

\* C17: a task never waits for another one: whenever it is running it can
\* use its Robot9000, whatever the other tasks are suspended in; and every
\* task other than the first, which may stay in a transport call for ever,
\* ends.
C17_StalledTaskBlocksNoOther ==
    /\ [](\A t \in Ids : Running(tasks[t]) => Free(t))
    /\ \A t \in 2..MaxStall : (t \in Ids) ~> (t \in Ids /\ ~Running(tasks[t]))

\* The first task is suspended in a transport call, and a task dispatched
\* after it has done its store operation and ended.
C17_Witness ==
    \E t \in Ids :
        /\ t > 1 /\ Suspended(tasks[1])
        /\ Processed(tasks[t]) /\ tasks[t].pc = "ok"
        /\ tasks[t].at = clock

====
